---- MODULE Spec2Model ----
(***************************************************************************)
(* Lead assignment of simpleAdvertisingCRM (main.go): the clients table,   *)
(* the assignLead handler run by concurrent requests, parseTimePeriod with *)
(* Go's time.Parse("15:04", ...) underneath, and the createNewClient and   *)
(* retrieveClient handlers.                                                *)
(*                                                                         *)
(* parseTimePeriod works on the characters of a string, a sequence of      *)
(* one-character strings, as strings.Split and time.Parse do in Go.        *)
(* Instants are minutes since day 0, 00:00 UTC; a time.Time is an instant  *)
(* (After and Before compare instants, whatever the Location).             *)
(*                                                                         *)
(* Spec runs concurrent requests that arrive within one minute (SpecFair   *)
(* with each request taking its steps), SpecSolo one request while the     *)
(* clock moves on, SpecParse parseTimePeriod alone, SpecReparse two calls  *)
(* of it for one string, SpecRegistry concurrent createNewClient requests  *)
(* and a retrieveClient request.                                           *)
(***************************************************************************)
EXTENDS Integers, Sequences, FiniteSets, TLC

VARIABLES
    db,           \* the clients table: id -> row
    db0,          \* the table before any request started (history)
    clock,        \* the instant time.Now() returns
    bootTime,     \* the clock of the initial state (history)
    Local,        \* offset of time.Local from UTC, in minutes
    pc,           \* request -> "idle" | "scan" | "done"
    currentTime,  \* request -> currentTime of assignLead
    clients,      \* request -> the slice read from the query
    idx,          \* request -> position of the range loop (1-based)
    resp,         \* request -> the HTTP response written
    parsed,       \* request -> the TimePeriods its scan computed (history)
    updated,      \* request -> ids whose UPDATE it executed (history)
    lost,         \* request -> rows.Next() ended the read early (history)
    input,        \* the string handed to parseTimePeriod (parser runs)
    result,       \* what parseTimePeriod returned for it
    again,        \* what a second call returned for the same string
    called,       \* the instants of the calls of parseTimePeriod (history)
    cpc,          \* createNewClient request -> "idle" | "insert" | "done"
                  \*                            | "exit"
    payload,      \* createNewClient request -> the client of its JSON body
    cresp,        \* createNewClient request -> the response written
    rpc,          \* the retrieveClient request: "idle" | "done"
    asked,        \* its "id" query parameter
    rresp         \* the response written to it

\* The state of the createNewClient and retrieveClient requests.
crud == <<cpc, payload, cresp, rpc, asked, rresp>>

vars == <<db, db0, clock, bootTime, Local, pc, currentTime, clients, idx,
          resp, parsed, updated, lost, input, result, again, called, crud>>

----------------------------------------------------------------------------
(* Bounds *)

MaxRequests == 2
MaxTicks == 1
MaxPartLen == 5

Requests == 1..MaxRequests

----------------------------------------------------------------------------
(* Strings *)

Digits == {"0", "1", "2", "3", "4", "5", "6", "7", "8", "9"}

DigitVal(c) ==
    CASE c = "0" -> 0 [] c = "1" -> 1 [] c = "2" -> 2 [] c = "3" -> 3
      [] c = "4" -> 4 [] c = "5" -> 5 [] c = "6" -> 6 [] c = "7" -> 7
      [] c = "8" -> 8 [] c = "9" -> 9

Tail2(s) == SubSeq(s, 3, Len(s))

\* The digit that writes n, 0 <= n <= 9.
DigitOf(n) == CHOOSE c \in Digits : DigitVal(c) = n

\* The working-hours strings of the model, with their characters.
Chars(s) ==
    CASE s = "09:00-17:00" ->
           <<"0", "9", ":", "0", "0", "-", "1", "7", ":", "0", "0">>
      [] s = "12:00-20:00" ->
           <<"1", "2", ":", "0", "0", "-", "2", "0", ":", "0", "0">>
      [] s = "16:30-00:30" ->
           <<"1", "6", ":", "3", "0", "-", "0", "0", ":", "3", "0">>
      [] s = "04:00-06:00" ->
           <<"0", "4", ":", "0", "0", "-", "0", "6", ":", "0", "0">>
      [] s = "9:00-17:00" ->
           <<"9", ":", "0", "0", "-", "1", "7", ":", "0", "0">>
      [] s = "non-time-format" ->
           <<"n", "o", "n", "-", "t", "i", "m", "e", "-",
             "f", "o", "r", "m", "a", "t">>
      [] s = "" -> <<>>


\* strings.Split(s, sep) for a one-character sep: always at least one part.
RECURSIVE Split(_, _)
Split(s, sep) ==
    IF \A i \in 1..Len(s) : s[i] # sep
    THEN <<s>>
    ELSE LET k == CHOOSE i \in 1..Len(s) :
                      s[i] = sep /\ \A j \in 1..(i - 1) : s[j] # sep
         IN  <<SubSeq(s, 1, k - 1)>> \o Split(SubSeq(s, k + 1, Len(s)), sep)

----------------------------------------------------------------------------
(* time.Parse with the layout "15:04" *)

\* isDigit(s, i) of package time, i counted from 0.
isDigit(s, i) == i + 1 <= Len(s) /\ s[i + 1] \in Digits

\* getnum: one or two digits, exactly two when fixed.
getnum(s, fixed) ==
    IF ~isDigit(s, 0)
    THEN [ok |-> FALSE, n |-> 0, rest |-> s]
    ELSE IF ~isDigit(s, 1)
         THEN IF fixed
              THEN [ok |-> FALSE, n |-> 0, rest |-> s]
              ELSE [ok |-> TRUE, n |-> DigitVal(s[1]), rest |-> Tail(s)]
         ELSE [ok |-> TRUE, n |-> DigitVal(s[1]) * 10 + DigitVal(s[2]),
               rest |-> Tail2(s)]

\* Mutant of timeParse: the layout "03:04", whose hour runs from 1 to 12.
timeParseTwelveHour(value) ==
    LET h == getnum(value, FALSE)
        bad == [ok |-> FALSE, hour |-> 0, minute |-> 0]
    IN  IF ~h.ok \/ h.n < 1 \/ h.n > 12
        THEN bad
        ELSE IF Len(h.rest) = 0 \/ h.rest[1] # ":"
             THEN bad
             ELSE LET m == getnum(Tail(h.rest), TRUE)
                  IN  IF ~m.ok \/ m.n >= 60 \/ Len(m.rest) # 0
                      THEN bad
                      ELSE [ok |-> TRUE, hour |-> h.n % 12, minute |-> m.n]

\* time.Parse("15:04", value): stdHour, the literal ":", stdZeroMinute, and
\* no text left over.  The result is in UTC.
timeParse(value) ==
    LET h == getnum(value, FALSE)
        bad == [ok |-> FALSE, hour |-> 0, minute |-> 0]
    IN  IF ~h.ok \/ h.n >= 24
        THEN bad
        ELSE IF Len(h.rest) = 0 \/ h.rest[1] # ":"
             THEN bad
             ELSE LET m == getnum(Tail(h.rest), TRUE)
                  IN  IF ~m.ok \/ m.n >= 60 \/ Len(m.rest) # 0
                      THEN bad
                      ELSE [ok |-> TRUE, hour |-> h.n, minute |-> m.n]

----------------------------------------------------------------------------
(* Instants and dates *)

MinutesPerDay == 24 * 60

UTC == 0

\* now.Date() in the location loc, as a day number.
Date(t, loc) == (t + loc) \div MinutesPerDay

\* time.Date(year, month, day, hour, min, 0, 0, loc)
timeDate(day, hour, min, loc) == day * MinutesPerDay + hour * 60 + min - loc

\* The zero time.Time, before every instant of the model.
ZeroTime == -1

----------------------------------------------------------------------------
(* parseTimePeriod *)

NoPeriod == [Start |-> ZeroTime, End |-> ZeroTime]

\* Mutant of parseTimePeriod: the hour and the minute are added to now
\* (now.Add) and not set on the date of now.
parseTimePeriodSinceNow(s, now, loc) ==
    LET times == Split(s, "-")
    IN  IF Len(times) # 2
        THEN [err |-> "invalid time period format", period |-> NoPeriod]
        ELSE LET start == timeParse(times[1])
                 end == timeParse(times[2])
             IN  IF ~start.ok
                 THEN [err |-> "invalid start time", period |-> NoPeriod]
                 ELSE IF ~end.ok
                      THEN [err |-> "invalid end time", period |-> NoPeriod]
                      ELSE [err |-> "nil",
                            period |->
                              [Start |-> now + start.hour * 60 + start.minute,
                               End |-> now + end.hour * 60 + end.minute]]

\* Mutant of parseTimePeriod: an end that is not after the start is put on
\* the next day.
parseTimePeriodOvernight(s, now, loc) ==
    LET times == Split(s, "-")
    IN  IF Len(times) # 2
        THEN [err |-> "invalid time period format", period |-> NoPeriod]
        ELSE LET start == timeParse(times[1])
                 end == timeParse(times[2])
                 day == Date(now, loc)
                 from == timeDate(day, start.hour, start.minute, UTC)
                 to == timeDate(day, end.hour, end.minute, UTC)
             IN  IF ~start.ok
                 THEN [err |-> "invalid start time", period |-> NoPeriod]
                 ELSE IF ~end.ok
                      THEN [err |-> "invalid end time", period |-> NoPeriod]
                      ELSE [err |-> "nil",
                            period |->
                              [Start |-> from,
                               End |-> IF to > from
                                       THEN to
                                       ELSE to + MinutesPerDay]]

\* parseTimePeriod(s) when time.Now() returns now and time.Local is loc.
parseTimePeriod(s, now, loc) ==
    LET times == Split(s, "-")
    IN  IF Len(times) # 2
        THEN [err |-> "invalid time period format", period |-> NoPeriod]
        ELSE LET start == timeParse(times[1])
                 end == timeParse(times[2])
                 day == Date(now, loc)
             IN  IF ~start.ok
                 THEN [err |-> "invalid start time", period |-> NoPeriod]
                 ELSE IF ~end.ok
                      THEN [err |-> "invalid end time", period |-> NoPeriod]
                      ELSE [err |-> "nil",
                            period |->
                              [Start |-> timeDate(day, start.hour,
                                                  start.minute, UTC),
                               End |-> timeDate(day, end.hour,
                                                end.minute, UTC)]]

\* The working-hours strings the tables of the model hold.
WorkingHoursTexts ==
    {"09:00-17:00", "12:00-20:00", "16:30-00:30", "04:00-06:00",
     "9:00-17:00", "non-time-format"}

\* parseTimePeriod of each of them on day 0, worked out once: the clock
\* enters the result of parseTimePeriod by the date alone.
ParsedOnDayZero ==
    [w \in WorkingHoursTexts |-> parseTimePeriod(Chars(w), 0, UTC)]

\* The period with the same hours and minutes on another day.
OnDay(period, day) ==
    [Start |-> period.Start + day * MinutesPerDay,
     End |-> period.End + day * MinutesPerDay]

\* parseTimePeriod(client.WorkingHours) for the working hours w of a row.
parseWorkingHours(w, now, loc) ==
    IF ParsedOnDayZero[w].err # "nil"
    THEN ParsedOnDayZero[w]
    ELSE [err |-> "nil",
          period |-> OnDay(ParsedOnDayZero[w].period, Date(now, loc))]

----------------------------------------------------------------------------
(* The clients table and the query of assignLead *)

StatusAccepted == 202
StatusNotFound == 404
StatusInternalServerError == 500

Ids(t) == DOMAIN t

\* Mutant of OrderedBefore: ORDER BY priority ASC.
OrderedBeforeAscending(a, b) ==
    \/ a.Priority < b.Priority
    \/ a.Priority = b.Priority /\ a.ExistingLeads <= b.ExistingLeads

\* ORDER BY priority DESC, existing_leads ASC: row a may come before row b.
OrderedBefore(a, b) ==
    \/ a.Priority > b.Priority
    \/ a.Priority = b.Priority /\ a.ExistingLeads <= b.ExistingLeads

\* The orders in which the query may return the ids of table t: SQL leaves
\* the order of rows that compare equal to the engine.
QueryOrders(t) ==
    LET n == Cardinality(Ids(t))
    IN  {s \in [1..n -> Ids(t)] :
            /\ \A i, j \in 1..n : i # j => s[i] # s[j]
            /\ \A i, j \in 1..n : i < j => OrderedBefore(t[s[i]], t[s[j]])}

\* rows.Scan(&client.ID, &client.Priority, &client.ExistingLeads,
\*           &client.WorkingHours, &client.LeadCapacity): Name stays "".
ScanRow(t, id) ==
    [ID |-> id, Name |-> "", WorkingHours |-> t[id].WorkingHours,
     Priority |-> t[id].Priority, LeadCapacity |-> t[id].LeadCapacity,
     ExistingLeads |-> t[id].ExistingLeads]

\* The slices the read loop builds from table t when it reads every row.
QueryResults(t) ==
    {[i \in 1..Len(s) |-> ScanRow(t, s[i])] : s \in QueryOrders(t)}

\* Mutant of IncrementLeads: the UPDATE without its WHERE clause.
IncrementEveryLead(t, id) ==
    [i \in Ids(t) |-> [t[i] EXCEPT !.ExistingLeads = @ + 1]]

\* Mutant of IncrementLeads: existing_leads - 1.
DecrementLeads(t, id) ==
    IF id \in Ids(t)
    THEN [t EXCEPT ![id].ExistingLeads = @ - 1]
    ELSE t

\* UPDATE clients SET existing_leads = existing_leads + 1 WHERE id = ?
IncrementLeads(t, id) ==
    IF id \in Ids(t)
    THEN [t EXCEPT ![id].ExistingLeads = @ + 1]
    ELSE t

\* currentTime.After(workingHours.Start) && currentTime.Before(workingHours.End)
InWorkingHours(now, period) == now > period.Start /\ now < period.End

\* client.ExistingLeads < client.LeadCapacity
HasCapacity(client) == client.ExistingLeads < client.LeadCapacity

----------------------------------------------------------------------------
(* assignLead, one request p *)

\* http.Error(w, error, code), and for 202 the JSON {"client_id": id}.
\* client_id is 0 in a response that carries none (ids start at 1).
Respond(p, code, error, id) ==
    /\ resp' = [resp EXCEPT
                  ![p] = [code |-> code, error |-> error, client_id |-> id]]
    /\ pc' = [pc EXCEPT ![p] = "done"]

NoResponse == [code |-> 0, error |-> "", client_id |-> 0]

\* Mutant of LoopTo: the handler returns after the loop without the final
\* http.Error, and net/http answers 200 with an empty body.
LoopToNoError(p, cs, i) ==
    IF i > Len(cs)
    THEN /\ Respond(p, 200, "", 0)
         /\ idx' = idx
    ELSE /\ idx' = [idx EXCEPT ![p] = i]
         /\ pc' = [pc EXCEPT ![p] = "scan"]
         /\ resp' = resp

\* The range loop moves on to position i of the slice cs, or falls out of
\* the loop into the final http.Error.
LoopTo(p, cs, i) ==
    IF i > Len(cs)
    THEN /\ Respond(p, StatusNotFound, "No suitable client found", 0)
         /\ idx' = idx
    ELSE /\ idx' = [idx EXCEPT ![p] = i]
         /\ pc' = [pc EXCEPT ![p] = "scan"]
         /\ resp' = resp

\* currentTime := time.Now(); db.Query fails.
QueryFails(p) ==
    /\ pc[p] = "idle"
    /\ currentTime' = [currentTime EXCEPT ![p] = clock]
    /\ Respond(p, StatusInternalServerError, "Failed to retrieve clients", 0)
    /\ UNCHANGED <<db, db0, clock, bootTime, Local, clients, idx, parsed,
                   updated, lost, input, result, again, called, crud>>

\* currentTime := time.Now(); the query runs and rows.Scan fails on a row.
RowScanFails(p) ==
    /\ pc[p] = "idle"
    /\ Ids(db) # {}
    /\ currentTime' = [currentTime EXCEPT ![p] = clock]
    /\ Respond(p, StatusInternalServerError, "Failed to retrieve client data",
               0)
    /\ UNCHANGED <<db, db0, clock, bootTime, Local, clients, idx, parsed,
                   updated, lost, input, result, again, called, crud>>

\* currentTime := time.Now(); the query and the read loop run to the end of
\* the rows: the slice holds every row.
ReadClients(p) ==
    /\ pc[p] = "idle"
    /\ currentTime' = [currentTime EXCEPT ![p] = clock]
    /\ \E cs \in QueryResults(db) :
          /\ clients' = [clients EXCEPT ![p] = cs]
          /\ LoopTo(p, cs, 1)
    /\ UNCHANGED <<db, db0, clock, bootTime, Local, parsed, updated, lost,
                   input, result, again, called, crud>>

\* As ReadClients, but rows.Next() returns false on an error after k rows;
\* assignLead never asks rows.Err() and goes on with the rows it has.
ReadClientsCutShort(p) ==
    /\ pc[p] = "idle"
    /\ currentTime' = [currentTime EXCEPT ![p] = clock]
    /\ \E all \in QueryResults(db) :
          \E k \in 0..(Len(all) - 1) :
             LET cs == SubSeq(all, 1, k)
             IN  /\ clients' = [clients EXCEPT ![p] = cs]
                 /\ LoopTo(p, cs, 1)
    /\ lost' = [lost EXCEPT ![p] = TRUE]
    /\ UNCHANGED <<db, db0, clock, bootTime, Local, parsed, updated,
                   input, result, again, called, crud>>

\* Mutant of ParseFails: a client whose working hours do not parse is passed
\* over like one outside its working hours.
ParseFailsSkipped(p) ==
    /\ pc[p] = "scan"
    /\ LET client == clients[p][idx[p]]
           wh == parseWorkingHours(client.WorkingHours, clock, Local)
       IN  /\ wh.err # "nil"
           /\ parsed' = [parsed EXCEPT ![p] = Append(@, wh)]
           /\ LoopTo(p, clients[p], idx[p] + 1)
    /\ UNCHANGED <<db, db0, clock, bootTime, Local, currentTime, clients,
                   updated, lost, input, result, again, called, crud>>

\* One pass of the range loop whose parseTimePeriod fails.
ParseFails(p) ==
    /\ pc[p] = "scan"
    /\ LET client == clients[p][idx[p]]
           wh == parseWorkingHours(client.WorkingHours, clock, Local)
       IN  /\ wh.err # "nil"
           /\ parsed' = [parsed EXCEPT ![p] = Append(@, wh)]
           /\ Respond(p, StatusInternalServerError,
                      "Failed to parse working hours", 0)
    /\ UNCHANGED <<db, db0, clock, bootTime, Local, currentTime, clients,
                   idx, updated, lost, input, result, again, called, crud>>

\* Mutant of SkipClient: without the continue, a client inside its working
\* hours and at capacity ends the handler with nothing written (200).
SkipClientNoContinue(p) ==
    /\ pc[p] = "scan"
    /\ LET client == clients[p][idx[p]]
           wh == parseWorkingHours(client.WorkingHours, clock, Local)
       IN  /\ wh.err = "nil"
           /\ ~(InWorkingHours(currentTime[p], wh.period) /\ HasCapacity(client))
           /\ parsed' = [parsed EXCEPT ![p] = Append(@, wh)]
           /\ IF InWorkingHours(currentTime[p], wh.period)
              THEN Respond(p, 200, "", 0) /\ idx' = idx
              ELSE LoopTo(p, clients[p], idx[p] + 1)
    /\ UNCHANGED <<db, db0, clock, bootTime, Local, currentTime, clients,
                   updated, lost, input, result, again, called, crud>>

\* One pass whose client is outside its working hours, or inside them and
\* at capacity (continue): on to the next client.
SkipClient(p) ==
    /\ pc[p] = "scan"
    /\ LET client == clients[p][idx[p]]
           wh == parseWorkingHours(client.WorkingHours, clock, Local)
       IN  /\ wh.err = "nil"
           /\ ~(InWorkingHours(currentTime[p], wh.period) /\ HasCapacity(client))
           /\ parsed' = [parsed EXCEPT ![p] = Append(@, wh)]
           /\ LoopTo(p, clients[p], idx[p] + 1)
    /\ UNCHANGED <<db, db0, clock, bootTime, Local, currentTime, clients,
                   updated, lost, input, result, again, called, crud>>

\* One pass whose client is inside its working hours and under capacity by
\* the slice: the UPDATE runs and the request answers 202.
AssignClient(p) ==
    /\ pc[p] = "scan"
    /\ LET client == clients[p][idx[p]]
           wh == parseWorkingHours(client.WorkingHours, clock, Local)
       IN  /\ wh.err = "nil"
           /\ InWorkingHours(currentTime[p], wh.period)
           /\ HasCapacity(client)
           /\ parsed' = [parsed EXCEPT ![p] = Append(@, wh)]
           /\ db' = IncrementLeads(db, client.ID)
           /\ updated' = [updated EXCEPT ![p] = Append(@, client.ID)]
           /\ Respond(p, StatusAccepted, "", client.ID)
    /\ UNCHANGED <<db0, clock, bootTime, Local, currentTime, clients, idx,
                   lost, input, result, again, called, crud>>

\* As AssignClient, but db.Exec returns an error and nothing is written.
UpdateFails(p) ==
    /\ pc[p] = "scan"
    /\ LET client == clients[p][idx[p]]
           wh == parseWorkingHours(client.WorkingHours, clock, Local)
       IN  /\ wh.err = "nil"
           /\ InWorkingHours(currentTime[p], wh.period)
           /\ HasCapacity(client)
           /\ parsed' = [parsed EXCEPT ![p] = Append(@, wh)]
           /\ Respond(p, StatusInternalServerError,
                      "Failed to update client's lead counter", 0)
    /\ UNCHANGED <<db, db0, clock, bootTime, Local, currentTime, clients,
                   idx, updated, lost, input, result, again, called, crud>>

assignLead(p) ==
    \/ QueryFails(p)
    \/ RowScanFails(p)
    \/ ReadClients(p)
    \/ ReadClientsCutShort(p)
    \/ ParseFails(p)
    \/ SkipClient(p)
    \/ AssignClient(p)
    \/ UpdateFails(p)

\* The clock moves on by a minute.
Tick ==
    /\ clock < bootTime + MaxTicks
    /\ clock' = clock + 1
    /\ UNCHANGED <<db, db0, bootTime, Local, pc, currentTime, clients, idx,
                   resp, parsed, updated, lost, input, result, again, called,
                   crud>>

----------------------------------------------------------------------------
(* createNewClient and retrieveClient *)

StatusOK == 200
StatusCreated == 201
StatusBadRequest == 400
StatusMethodNotAllowed == 405

\* log.Fatal has ended the process: no handler takes another step.
Running == \A p \in Requests : cpc[p] # "exit"

\* SELECT id FROM clients WHERE name = ?
IdsNamed(t, name) == {id \in Ids(t) : t[id].Name = name}

\* The row of INSERT INTO clients (name, working_hours, priority,
\* lead_capacity, existing_leads): the id of the body is not a column of it.
InsertRow(c) ==
    [Name |-> c.Name, WorkingHours |-> c.WorkingHours,
     Priority |-> c.Priority, LeadCapacity |-> c.LeadCapacity,
     ExistingLeads |-> c.ExistingLeads]

\* res.LastInsertId() of id INTEGER PRIMARY KEY AUTOINCREMENT in a table
\* no row is ever deleted from.
LastInsertId(t) == Len(t) + 1

\* w.WriteHeader(code) and the JSON {"id": id}; http.Error carries no id (0).
Reply(p, code, id) ==
    /\ cresp' = [cresp EXCEPT ![p] = [code |-> code, id |-> id]]
    /\ cpc' = [cpc EXCEPT ![p] = "done"]

NoReply == [code |-> 0, id |-> 0]

\* The method is not POST (405), or the body does not decode (400).
CreateRejected(p) ==
    /\ Running
    /\ cpc[p] = "idle"
    /\ \E code \in {StatusMethodNotAllowed, StatusBadRequest} :
          Reply(p, code, 0)
    /\ UNCHANGED <<db, db0, clock, bootTime, Local, pc, currentTime, clients,
                   idx, resp, parsed, updated, lost, input, result, again,
                   called, payload, rpc, asked, rresp>>

\* row.Scan(&existingID) finds a row of that name: 200 with its id.
CreateFindsClient(p) ==
    /\ Running
    /\ cpc[p] = "idle"
    /\ \E id \in IdsNamed(db, payload[p].Name) : Reply(p, StatusOK, id)
    /\ UNCHANGED <<db, db0, clock, bootTime, Local, pc, currentTime, clients,
                   idx, resp, parsed, updated, lost, input, result, again,
                   called, payload, rpc, asked, rresp>>

\* row.Scan returns an error that is not sql.ErrNoRows: the test
\* !errors.Is(err, sql.ErrNoRows) holds and the handler answers 200 with the
\* zero existingID.
CreateLookupFails(p) ==
    /\ Running
    /\ cpc[p] = "idle"
    /\ Reply(p, StatusOK, 0)
    /\ UNCHANGED <<db, db0, clock, bootTime, Local, pc, currentTime, clients,
                   idx, resp, parsed, updated, lost, input, result, again,
                   called, payload, rpc, asked, rresp>>

\* row.Scan returns sql.ErrNoRows: the handler goes on to the INSERT.
CreateFindsNone(p) ==
    /\ Running
    /\ cpc[p] = "idle"
    /\ IdsNamed(db, payload[p].Name) = {}
    /\ cpc' = [cpc EXCEPT ![p] = "insert"]
    /\ UNCHANGED <<db, db0, clock, bootTime, Local, pc, currentTime, clients,
                   idx, resp, parsed, updated, lost, input, result, again,
                   called, payload, cresp, rpc, asked, rresp>>

\* db.Exec of the INSERT: 201 with res.LastInsertId().
CreateInserts(p) ==
    /\ Running
    /\ cpc[p] = "insert"
    /\ db' = Append(db, InsertRow(payload[p]))
    /\ Reply(p, StatusCreated, LastInsertId(db))
    /\ UNCHANGED <<db0, clock, bootTime, Local, pc, currentTime, clients,
                   idx, resp, parsed, updated, lost, input, result, again,
                   called, payload, rpc, asked, rresp>>

\* db.Exec of the INSERT returns an error: log.Fatal ends the process.
CreateInsertFails(p) ==
    /\ Running
    /\ cpc[p] = "insert"
    /\ cpc' = [cpc EXCEPT ![p] = "exit"]
    /\ UNCHANGED <<db, db0, clock, bootTime, Local, pc, currentTime, clients,
                   idx, resp, parsed, updated, lost, input, result, again,
                   called, payload, cresp, rpc, asked, rresp>>

createNewClient(p) ==
    \/ CreateRejected(p)
    \/ CreateFindsClient(p)
    \/ CreateLookupFails(p)
    \/ CreateFindsNone(p)
    \/ CreateInserts(p)
    \/ CreateInsertFails(p)

\* fmt.Sprint(n) for n >= 0.
RECURSIVE Sprint(_)
Sprint(n) ==
    IF n < 10
    THEN <<DigitOf(n)>>
    ELSE Sprint(n \div 10) \o <<DigitOf(n % 10)>>

\* The id column has INTEGER affinity, so SQLite converts a text parameter
\* that is a decimal numeral to its number before it compares; any other
\* text equals no id.
IsNumeral(s) == Len(s) > 0 /\ \A i \in 1..Len(s) : s[i] \in Digits

RECURSIVE NumeralValue(_)
NumeralValue(s) ==
    IF Len(s) = 0
    THEN 0
    ELSE NumeralValue(SubSeq(s, 1, Len(s) - 1)) * 10 + DigitVal(s[Len(s)])

\* SELECT * FROM clients WHERE id = ?
IdsEqual(t, s) ==
    IF IsNumeral(s) THEN {id \in Ids(t) : id = NumeralValue(s)} ELSE {}

\* Mutant of ScanClient: priority and lead_capacity scanned into each
\* other's field.
ScanClientSwapped(t, id) ==
    [ID |-> id, Name |-> t[id].Name, WorkingHours |-> t[id].WorkingHours,
     Priority |-> t[id].LeadCapacity, LeadCapacity |-> t[id].Priority,
     ExistingLeads |-> t[id].ExistingLeads]

\* row.Scan(&c.ID, &c.Name, &c.WorkingHours, &c.Priority, &c.LeadCapacity,
\*          &c.ExistingLeads) on the columns in the order of CREATE TABLE.
ScanClient(t, id) ==
    [ID |-> id, Name |-> t[id].Name, WorkingHours |-> t[id].WorkingHours,
     Priority |-> t[id].Priority, LeadCapacity |-> t[id].LeadCapacity,
     ExistingLeads |-> t[id].ExistingLeads]

NoClient ==
    [ID |-> 0, Name |-> "", WorkingHours |-> "", Priority |-> 0,
     LeadCapacity |-> 0, ExistingLeads |-> 0]

NoAnswer == [code |-> 0, client |-> NoClient]

\* The "id" parameters a retrieveClient request may carry: the numerals of
\* the ids in use and of the next one, a numeral with a leading zero, a text
\* that is no numeral, and none.
AskedIds ==
    {Sprint(n) : n \in 1..(Len(db) + 1)}
    \cup {<<"0">> \o Sprint(n) : n \in 1..Len(db)}
    \cup {<<"x">>, <<>>}

Answer(code, client) ==
    /\ rresp' = [code |-> code, client |-> client]
    /\ rpc' = "done"

\* The method is not GET.
RetrieveRejected ==
    /\ Running
    /\ rpc = "idle"
    /\ Answer(StatusMethodNotAllowed, NoClient)
    /\ UNCHANGED <<db, db0, clock, bootTime, Local, pc, currentTime, clients,
                   idx, resp, parsed, updated, lost, input, result, again,
                   called, cpc, payload, cresp, asked>>

\* The whole handler for a GET whose row.Scan does not fail: 400 without
\* an id, 404 without a row of that id, 200 with the client.
RetrieveAnswers ==
    /\ Running
    /\ rpc = "idle"
    /\ \E id \in AskedIds :
          /\ asked' = id
          /\ IF id = <<>>
             THEN Answer(StatusBadRequest, NoClient)
             ELSE IF IdsEqual(db, id) = {}
                  THEN Answer(StatusNotFound, NoClient)
                  ELSE \E row \in IdsEqual(db, id) :
                          Answer(StatusOK, ScanClient(db, row))
    /\ UNCHANGED <<db, db0, clock, bootTime, Local, pc, currentTime, clients,
                   idx, resp, parsed, updated, lost, input, result, again,
                   called, cpc, payload, cresp>>

\* row.Scan returns an error that is not sql.ErrNoRows.
RetrieveScanFails ==
    /\ Running
    /\ rpc = "idle"
    /\ \E id \in AskedIds \ {<<>>} : asked' = id
    /\ Answer(StatusInternalServerError, NoClient)
    /\ UNCHANGED <<db, db0, clock, bootTime, Local, pc, currentTime, clients,
                   idx, resp, parsed, updated, lost, input, result, again,
                   called, cpc, payload, cresp>>

retrieveClient ==
    \/ RetrieveRejected
    \/ RetrieveAnswers
    \/ RetrieveScanFails

----------------------------------------------------------------------------
(* Initial states *)

\* clientsTest of the tests, as createNewClient stores it in an empty table.
clientsTest ==
    <<[Name |-> "Client One", WorkingHours |-> "09:00-17:00", Priority |-> 3,
       LeadCapacity |-> 10, ExistingLeads |-> 10],
      [Name |-> "Client Two", WorkingHours |-> "12:00-20:00", Priority |-> 3,
       LeadCapacity |-> 5, ExistingLeads |-> 0],
      [Name |-> "Client Three", WorkingHours |-> "16:30-00:30",
       Priority |-> 2, LeadCapacity |-> 7, ExistingLeads |-> 0]>>

Priorities == {2, 3}

RowsOf(name, hours, loads) ==
    {[Name |-> name, WorkingHours |-> w, Priority |-> q,
      LeadCapacity |-> l.cap, ExistingLeads |-> l.load] :
        w \in hours, q \in Priorities, l \in loads}

\* The tables of the concurrent runs: one or two clients with room for one
\* lead or none.
RaceWorkingHours == {"09:00-17:00", "16:30-00:30", "non-time-format"}
RaceLoads == {[cap |-> 1, load |-> 0], [cap |-> 1, load |-> 1]}

RaceTables ==
    {<<a>> : a \in RowsOf("A", RaceWorkingHours, RaceLoads)}
    \cup {<<a, b>> : a \in RowsOf("A", RaceWorkingHours, RaceLoads),
                     b \in RowsOf("B", RaceWorkingHours, RaceLoads)}

\* The tables of the runs of one request: two clients of any kind, three
\* clients whose working hours parse, and clientsTest.
SoloWorkingHours ==
    {"09:00-17:00", "12:00-20:00", "16:30-00:30", "04:00-06:00",
     "9:00-17:00", "non-time-format"}
TrioWorkingHours == {"09:00-17:00", "16:30-00:30"}
SoloLoads == RaceLoads \cup {[cap |-> 2, load |-> 1]}

SoloTables ==
    {<<a, b>> : a \in RowsOf("A", SoloWorkingHours, SoloLoads),
                b \in RowsOf("B", SoloWorkingHours, SoloLoads)}
    \cup {<<a, b, c>> : a \in RowsOf("A", TrioWorkingHours, RaceLoads),
                        b \in RowsOf("B", TrioWorkingHours, RaceLoads),
                        c \in RowsOf("C", TrioWorkingHours, RaceLoads)}
    \cup {clientsTest}

\* The zone of the process and the instant a run starts at, given as the
\* wall clock of day 1 in that zone.
RaceStarts == {[zone |-> 0, wall |-> 14 * 60]}

SoloStarts ==
    {[zone |-> 0, wall |-> 14 * 60], [zone |-> 180, wall |-> 14 * 60],
     [zone |-> 0, wall |-> 12 * 60], [zone |-> -300, wall |-> 23 * 60 + 59],
     [zone |-> 0, wall |-> 17 * 60]}

InitEngine(tables, starts) ==
    /\ db \in tables
    /\ db0 = db
    /\ \E st \in starts :
          /\ Local = st.zone
          /\ clock = timeDate(1, 0, st.wall, st.zone)
    /\ bootTime = clock
    /\ pc = [p \in Requests |-> "idle"]
    /\ currentTime = [p \in Requests |-> ZeroTime]
    /\ clients = [p \in Requests |-> <<>>]
    /\ idx = [p \in Requests |-> 0]
    /\ resp = [p \in Requests |-> NoResponse]
    /\ parsed = [p \in Requests |-> <<>>]
    /\ updated = [p \in Requests |-> <<>>]
    /\ lost = [p \in Requests |-> FALSE]

NoResult == [err |-> "not called", period |-> NoPeriod]

\* No parseTimePeriod call of a parser run has been made.
NoCalls ==
    /\ result = NoResult
    /\ again = NoResult
    /\ called = <<>>

\* No createNewClient or retrieveClient request is under way.
NoBody ==
    [ID |-> 0, Name |-> "", WorkingHours |-> "", Priority |-> 0,
     LeadCapacity |-> 0, ExistingLeads |-> 0]

InitCrud(bodies) ==
    /\ cpc = [p \in Requests |-> "idle"]
    /\ payload \in [Requests -> bodies]
    /\ cresp = [p \in Requests |-> NoReply]
    /\ rpc = "idle"
    /\ asked = <<>>
    /\ rresp = NoAnswer

\* Concurrent requests, all arriving within the same minute.
Init ==
    /\ InitEngine(RaceTables, RaceStarts)
    /\ InitCrud({NoBody})
    /\ input = <<>>
    /\ NoCalls

Next == \E p \in Requests : assignLead(p)

Spec == Init /\ [][Next]_vars

\* Each request is served on a goroutine of its own (net/http), and no call
\* of the handler blocks: a request that can take a step takes it.
SpecFair == Spec /\ \A p \in Requests : WF_vars(assignLead(p))

\* One request on its own, while the clock moves on.
InitSolo ==
    /\ InitEngine(SoloTables, SoloStarts)
    /\ InitCrud({NoBody})
    /\ input = <<>>
    /\ NoCalls

NextSolo ==
    \/ assignLead(1)
    \/ Tick

SpecSolo == InitSolo /\ [][NextSolo]_vars

\* createNewClient requests running concurrently, and one retrieveClient
\* request, on an empty table and on the table of the tests.

\* The body json.Marshal makes of a client like row, under another name
\* and with the "id" a client of the API may put there.
BodyOf(id, name, row) ==
    [ID |-> id, Name |-> name, WorkingHours |-> row.WorkingHours,
     Priority |-> row.Priority, LeadCapacity |-> row.LeadCapacity,
     ExistingLeads |-> row.ExistingLeads]

\* A name of clientsTest, a new name submitted with two different contents,
\* and another new name.
Bodies ==
    {BodyOf(0, "Client One", clientsTest[1]),
     BodyOf(0, "Client Four", clientsTest[1]),
     BodyOf(1, "Client Four", clientsTest[2]),
     BodyOf(1, "Client Five", clientsTest[2])}

CrudTables == {<<>>, clientsTest}

InitRegistry ==
    /\ InitEngine(CrudTables, RaceStarts)
    /\ InitCrud(Bodies)
    /\ input = <<>>
    /\ NoCalls

NextRegistry ==
    \/ \E p \in Requests : createNewClient(p)
    \/ retrieveClient

SpecRegistry == InitRegistry /\ [][NextRegistry]_vars

----------------------------------------------------------------------------
(* parseTimePeriod on its own *)

ParseAlphabet == {"2", "7", ":", "x"}

\* Every string over the alphabet of at most MaxPartLen characters.
PartTexts == UNION {[1..k -> ParseAlphabet] : k \in 0..MaxPartLen}

\* A well-formed time, a time with a one-digit hour, and two that are none.
AnchorParts ==
    {<<"2", "2", ":", "2", "7">>, <<"2", ":", "2", "7">>, <<"7">>, <<>>}

Dash(a, b) == a \o <<"-">> \o b

\* Well-formed times "HH:MM" around the clock.
ClockHours == {0, 9, 12, 23}
ClockMinutes == {0, 30, 59}

ClockText(h, m) ==
    <<DigitOf(h \div 10), DigitOf(h % 10), ":",
      DigitOf(m \div 10), DigitOf(m % 10)>>

ClockTexts == {ClockText(h, m) : h \in ClockHours, m \in ClockMinutes}

ParseInputs ==
    PartTexts
    \cup {Dash(a, b) : a \in ClockTexts, b \in ClockTexts}
    \cup {Dash(a, b) : a \in PartTexts, b \in AnchorParts}
    \cup {Dash(a, b) : a \in AnchorParts, b \in PartTexts}
    \cup {Dash(a, Dash(b, c)) : a \in AnchorParts, b \in AnchorParts,
                                c \in AnchorParts}
    \cup {Chars(s) : s \in SoloWorkingHours}

InitParse ==
    /\ InitEngine({clientsTest}, SoloStarts)
    /\ InitCrud({NoBody})
    /\ input \in ParseInputs
    /\ NoCalls

\* res, err := parseTimePeriod(tc.Input)
CallParse ==
    /\ result = NoResult
    /\ result' = parseTimePeriod(input, clock, Local)
    /\ called' = Append(called, clock)
    /\ UNCHANGED <<db, db0, clock, bootTime, Local, pc, currentTime, clients,
                   idx, resp, parsed, updated, lost, input, again, crud>>

NextParse == CallParse

SpecParse == InitParse /\ [][NextParse]_vars

\* parseTimePeriod called twice for one string while the clock moves on, as
\* the loop of assignLead does for clients with the same working hours.
ReparseInputs ==
    {Chars(s) : s \in SoloWorkingHours}
    \cup {Dash(a, b) : a \in ClockTexts, b \in ClockTexts}
    \cup {Dash(a, b) : a \in AnchorParts, b \in AnchorParts}
    \cup AnchorParts

\* The starts of SoloStarts, and a minute before midnight in UTC.
ReparseStarts == SoloStarts \cup {[zone |-> 0, wall |-> 23 * 60 + 59]}

InitReparse ==
    /\ InitEngine({clientsTest}, ReparseStarts)
    /\ InitCrud({NoBody})
    /\ input \in ReparseInputs
    /\ NoCalls

CallParseAgain ==
    /\ result # NoResult
    /\ again = NoResult
    /\ again' = parseTimePeriod(input, clock, Local)
    /\ called' = Append(called, clock)
    /\ UNCHANGED <<db, db0, clock, bootTime, Local, pc, currentTime, clients,
                   idx, resp, parsed, updated, lost, input, result, crud>>

NextReparse ==
    \/ CallParse
    \/ CallParseAgain
    \/ Tick

SpecReparse == InitReparse /\ [][NextReparse]_vars

----------------------------------------------------------------------------
(* The vocabulary of the properties *)

Done(p) == pc[p] = "done"

Assigned(p) == Done(p) /\ resp[p].code = StatusAccepted

AssignedTo(p, id) == Assigned(p) /\ resp[p].client_id = id

NoEligibleClient(p) ==
    /\ Done(p)
    /\ resp[p].code = StatusNotFound
    /\ resp[p].error = "No suitable client found"

ConfigurationError(p) ==
    /\ Done(p)
    /\ resp[p].code = StatusInternalServerError
    /\ resp[p].error = "Failed to parse working hours"

StorageError(p) ==
    /\ Done(p)
    /\ resp[p].code = StatusInternalServerError
    /\ resp[p].error \in {"Failed to retrieve clients",
                         "Failed to retrieve client data",
                         "Failed to update client's lead counter"}

\* The window of client c as parseTimePeriod resolves it at instant t.
WindowAt(c, t) == parseWorkingHours(c.WorkingHours, t, Local)

Parses(c) == WindowAt(c, 0).err = "nil"

\* Request p found the client at position i of its slice inside the window
\* it resolved for it and under capacity.
FoundEligible(p, i) ==
    /\ parsed[p][i].err = "nil"
    /\ InWorkingHours(currentTime[p], parsed[p][i].period)
    /\ HasCapacity(clients[p][i])

\* The client c of p's slice was inside its window and under capacity when
\* p read the table.
EligibleAtRead(p, c) ==
    /\ WindowAt(c, currentTime[p]).err = "nil"
    /\ InWorkingHours(currentTime[p], WindowAt(c, currentTime[p]).period)
    /\ HasCapacity(c)

\* The positions of p's slice that were eligible when p read the table.
EligiblePositions(p) ==
    {i \in 1..Len(clients[p]) : EligibleAtRead(p, clients[p][i])}

Least(S) == CHOOSE i \in S : \A j \in S : i <= j

\* The wall clock of instant t in the location loc, in minutes of the day.
Clock(t, loc) == (t + loc) % MinutesPerDay

\* parseWorkingHours is parseTimePeriod on the characters of the string.
ParseTableAgrees ==
    \A w \in WorkingHoursTexts :
        parseWorkingHours(w, clock, Local)
            = parseTimePeriod(Chars(w), clock, Local)

----------------------------------------------------------------------------
(* C1: from a table with 0 <= existingLeads <= leadCapacity for every      *)
(* client, no interleaving of assignLead requests brings a client's        *)
(* existingLeads above its leadCapacity.                                   *)

C1_CapacityNeverExceeded ==
    \A id \in Ids(db) : db[id].ExistingLeads <= db[id].LeadCapacity

----------------------------------------------------------------------------
(* C2: the successful assignments to a client never outnumber the slack    *)
(* leadCapacity - existingLeads it had before the requests started; and    *)
(* when all requests have answered 202 or 404 on a table of one client     *)
(* that is inside its window with capacity 1 and no lead, exactly one      *)
(* answered 202.                                                           *)

Successes(id) == {p \in Requests : AssignedTo(p, id)}

C2_SuccessesWithinSlack ==
    /\ \A id \in Ids(db0) :
          Cardinality(Successes(id))
              <= db0[id].LeadCapacity - db0[id].ExistingLeads
    /\ ( /\ Ids(db0) = {1}
         /\ db0[1].LeadCapacity = 1
         /\ db0[1].ExistingLeads = 0
         /\ \A p \in Requests :
               /\ Assigned(p) \/ NoEligibleClient(p)
               /\ ~lost[p]
               /\ EligibleAtRead(p, ScanRow(db0, 1)) )
       => Cardinality(Successes(1)) = 1

----------------------------------------------------------------------------
(* C3: when two requests both read the last free slot of the client that   *)
(* is the first eligible one of their slices, and a later client of their  *)
(* slices is eligible too, one of them is assigned that first client and   *)
(* the other the next eligible client of its own slice.                    *)

SawLastSlot(p, i) ==
    clients[p][i].ExistingLeads + 1 = clients[p][i].LeadCapacity

NextEligible(p) ==
    Least(EligiblePositions(p) \ {Least(EligiblePositions(p))})

RacedForLastSlot(p, q) ==
    /\ p # q
    /\ Assigned(p) /\ Assigned(q)
    /\ Cardinality(EligiblePositions(p)) >= 2
    /\ Cardinality(EligiblePositions(q)) >= 2
    /\ LET i == Least(EligiblePositions(p))
           j == Least(EligiblePositions(q))
       IN  /\ clients[p][i] = clients[q][j]
           /\ SawLastSlot(p, i)

C3_LoserTakesNextCandidate ==
    \A p, q \in Requests :
        RacedForLastSlot(p, q) =>
            \/ /\ AssignedTo(p, clients[p][Least(EligiblePositions(p))].ID)
               /\ AssignedTo(q, clients[q][NextEligible(q)].ID)
            \/ /\ AssignedTo(q, clients[q][Least(EligiblePositions(q))].ID)
               /\ AssignedTo(p, clients[p][NextEligible(p)].ID)

----------------------------------------------------------------------------
(* C4: a request run alone on a table whose working-hours strings all      *)
(* parse returns the first client, by priority descending and then         *)
(* existingLeads ascending, that is inside its window and under capacity,  *)
(* and skips the others; on clientsTest at 14:00 it returns client 2.      *)

\* The order the claim states.
ByPriorityThenLoad(a, b) ==
    \/ a.Priority > b.Priority
    \/ a.Priority = b.Priority /\ a.ExistingLeads <= b.ExistingLeads

\* The request read the whole table and no registry call failed.
ReadAll(p) ==
    /\ Done(p)
    /\ ~StorageError(p)
    /\ ~lost[p]

FoundEligiblePositions(p) == {i \in 1..Len(parsed[p]) : FoundEligible(p, i)}

C4_FirstEligibleInOrder ==
    (ReadAll(1) /\ \A id \in Ids(db0) : Parses(db0[id])) =>
        /\ {clients[1][i].ID : i \in 1..Len(clients[1])} = Ids(db0)
        /\ \A i, j \in 1..Len(clients[1]) :
              i < j => ByPriorityThenLoad(clients[1][i], clients[1][j])
        /\ \A i \in 1..Len(clients[1]) :
              clients[1][i] = ScanRow(db0, clients[1][i].ID)
        /\ IF FoundEligiblePositions(1) # {}
           THEN AssignedTo(1, clients[1][Least(FoundEligiblePositions(1))].ID)
           ELSE NoEligibleClient(1) /\ Len(parsed[1]) = Len(clients[1])

C4_TestTableAtTwo ==
    ( /\ ReadAll(1)
      /\ db0 = clientsTest
      /\ Clock(currentTime[1], Local) = 14 * 60 )
    => AssignedTo(1, 2)

C4_AloneFirstEligible == C4_FirstEligibleInOrder /\ C4_TestTableAtTwo

----------------------------------------------------------------------------
(* C5: of two clients that are both inside their window and under          *)
(* capacity when a request reads the table, the request never returns the  *)
(* one with the strictly lower priority, wherever the rows are stored.     *)

----------------------------------------------------------------------------
(* C6: the step in which a request succeeds adds exactly 1 to              *)
(* existingLeads of the client whose id it returns and changes nothing     *)
(* else in the table; the request has made no other update and, once it    *)
(* has answered, makes none.                                               *)

SucceedsNow(p) == ~Assigned(p) /\ Assigned(p)'

C6_OneIncrementOnly ==
    [][\A p \in Requests :
          /\ SucceedsNow(p) =>
                /\ resp'[p].client_id \in Ids(db)
                /\ db' = [db EXCEPT
                            ![resp'[p].client_id].ExistingLeads = @ + 1]
                /\ updated'[p] = <<resp'[p].client_id>>
          /\ Done(p) =>
                /\ Done(p)'
                /\ resp'[p] = resp[p]
                /\ updated'[p] = updated[p]]_vars

\* A request has succeeded while a later client of its slice was eligible
\* too, and that later client is as it was.
C6_Witness ==
    \E p \in Requests :
        /\ Assigned(p)
        /\ Cardinality(EligiblePositions(p)) >= 2
        /\ \E id \in Ids(db) :
              /\ ~AssignedTo(p, id)
              /\ EligibleAtRead(p, ScanRow(db0, id))
              /\ db[id] = db0[id]
        /\ db[resp[p].client_id].ExistingLeads
               = db0[resp[p].client_id].ExistingLeads + 1

----------------------------------------------------------------------------
(* C7: when the scan of a request reaches a client whose workingHours does *)
(* not parse, the scan stops there and the request answers with the        *)
(* configuration error, which is not the no-eligible-client answer, having *)
(* updated no client.                                                      *)

C7_ParseFailureReported ==
    \A p \in Requests :
        \A i \in 1..Len(parsed[p]) :
            ~Parses(clients[p][i]) =>
                /\ i = Len(parsed[p])
                /\ ConfigurationError(p)
                /\ ~NoEligibleClient(p)
                /\ updated[p] = <<>>

\* A request skipped a client that was out of reach and then met one whose
\* workingHours does not parse, while the other request was assigned.
C7_Witness ==
    \E p, q \in Requests :
        /\ Len(parsed[p]) = 2
        /\ ~Parses(clients[p][2])
        /\ ConfigurationError(p)
        /\ Assigned(q)

----------------------------------------------------------------------------
(* C8: when every workingHours of the slice parses and the request found   *)
(* no client of it inside its window and under capacity, the request       *)
(* answers no-eligible-client and the table is as it was.                  *)

SliceRead(p) ==
    /\ Done(p)
    /\ resp[p].error \notin {"Failed to retrieve clients",
                            "Failed to retrieve client data"}

----------------------------------------------------------------------------
(* C9: a request one of whose registry calls failed (the query, the        *)
(* iteration over its rows, the update) answers with a storage error.      *)

C9_StorageFailureReported ==
    \A p \in Requests : (Done(p) /\ lost[p]) => StorageError(p)

----------------------------------------------------------------------------
(* C10: parseTimePeriod returns an error for every input that is not two   *)
(* parts around one "-", each a 24-hour HH:MM time.                        *)

\* s is "HH:MM": two digits, a colon, two digits, hour < 24, minute < 60.
IsHHMM(s) ==
    /\ Len(s) = 5
    /\ s[1] \in Digits /\ s[2] \in Digits
    /\ s[3] = ":"
    /\ s[4] \in Digits /\ s[5] \in Digits
    /\ DigitVal(s[1]) * 10 + DigitVal(s[2]) < 24
    /\ DigitVal(s[4]) * 10 + DigitVal(s[5]) < 60

\* s is "HH:MM-HH:MM".
IsHHMMPeriod(s) ==
    /\ Len(s) = 11
    /\ s[6] = "-"
    /\ IsHHMM(SubSeq(s, 1, 5))
    /\ IsHHMM(SubSeq(s, 7, 11))

C10_MalformedRejected ==
    (result # NoResult /\ ~IsHHMMPeriod(input)) =>
        result.err # "nil" /\ result.period = NoPeriod

\* What the parser does accept: two parts, each "H:MM" or "HH:MM".
IsHMM(s) ==
    /\ Len(s) = 4
    /\ s[1] \in Digits
    /\ s[2] = ":"
    /\ s[3] \in Digits /\ s[4] \in Digits
    /\ DigitVal(s[3]) * 10 + DigitVal(s[4]) < 60

AcceptedPeriod(s) ==
    \E k \in 1..Len(s) :
        /\ s[k] = "-"
        /\ IsHHMM(SubSeq(s, 1, k - 1)) \/ IsHMM(SubSeq(s, 1, k - 1))
        /\ IsHHMM(SubSeq(s, k + 1, Len(s))) \/ IsHMM(SubSeq(s, k + 1, Len(s)))

C10_AcceptsOneDigitHour ==
    result # NoResult =>
        /\ result.err = "nil" <=> AcceptedPeriod(input)
        /\ result.err # "nil" => result.period = NoPeriod

----------------------------------------------------------------------------
(* C11: for "HH:MM-HH:MM" with start before end, parseTimePeriod succeeds  *)
(* and the start and the end of the period carry the hour and the minute   *)
(* of the input and the year, month and day of the current date.           *)

\* Hour() and Minute() of the instant t read in the location loc.
Hour(t, loc) == Clock(t, loc) \div 60
Minute(t, loc) == Clock(t, loc) % 60

\* The hour and the minute an "HH:MM" text writes.
TextHour(s) == DigitVal(s[1]) * 10 + DigitVal(s[2])
TextMinute(s) == DigitVal(s[4]) * 10 + DigitVal(s[5])

StartText(s) == SubSeq(s, 1, 5)
EndText(s) == SubSeq(s, 7, 11)

MinuteOfDay(s) == TextHour(s) * 60 + TextMinute(s)

\* s is "HH:MM-HH:MM" with the start before the end.
ValidWindow(s) ==
    /\ IsHHMMPeriod(s)
    /\ MinuteOfDay(StartText(s)) < MinuteOfDay(EndText(s))

\* The time.Time t, whose Location is UTC, reads as the text s on the
\* calendar day of instant now in the location loc.
ReadsAs(t, s, now, loc) ==
    /\ Hour(t, UTC) = TextHour(s)
    /\ Minute(t, UTC) = TextMinute(s)
    /\ Date(t, UTC) = Date(now, loc)

C11_ValidWindowParsed ==
    (result # NoResult /\ ValidWindow(input)) =>
        /\ result.err = "nil"
        /\ ReadsAs(result.period.Start, StartText(input), called[1], Local)
        /\ ReadsAs(result.period.End, EndText(input), called[1], Local)

\* A valid window has been parsed while the date of time.Local was not the
\* date of UTC.
C11_Witness ==
    /\ result # NoResult
    /\ ValidWindow(input)
    /\ result.err = "nil"
    /\ TextHour(StartText(input)) = 9
    /\ TextMinute(EndText(input)) = 59
    /\ Date(called[1], Local) # Date(called[1], UTC)

----------------------------------------------------------------------------
(* C12: whatever the offset of time.Local from UTC, assignLead treats a    *)
(* client under capacity whose window is "HH:MM-HH:MM" with start before   *)
(* end as inside its window exactly when the local wall clock of the       *)
(* request is between start and end.                                       *)

\* Request p treated the client at position i of its slice as inside its
\* window.
TreatedInside(p, i) ==
    /\ parsed[p][i].err = "nil"
    /\ InWorkingHours(currentTime[p], parsed[p][i].period)

\* The local wall clock of request p, in minutes of the day.
WallClock(p) == Clock(currentTime[p], Local)

\* Whichever way the two ends of the window count, a wall clock strictly
\* between them is inside and one strictly beyond them is outside.
C12_WindowOnLocalClock ==
    \A i \in 1..Len(parsed[1]) :
        LET c == clients[1][i]
            s == Chars(c.WorkingHours)
        IN  (ValidWindow(s) /\ HasCapacity(c)) =>
                /\ ( /\ MinuteOfDay(StartText(s)) < WallClock(1)
                     /\ WallClock(1) < MinuteOfDay(EndText(s)) )
                   => TreatedInside(1, i)
                /\ TreatedInside(1, i) =>
                      /\ MinuteOfDay(StartText(s)) <= WallClock(1)
                      /\ WallClock(1) <= MinuteOfDay(EndText(s))

----------------------------------------------------------------------------
(* C13: two calls of parseTimePeriod for the same string on the same       *)
(* calendar date return the same period and the same error.                *)

\* Both calls have been made, on the same date of the local calendar.
ParsedTwiceSameDate ==
    /\ again # NoResult
    /\ Date(called[1], Local) = Date(called[2], Local)

C13_SameDateSameResult == ParsedTwiceSameDate => again = result

\* A string that parses has been parsed at two instants of one date.
C13_Witness ==
    /\ ParsedTwiceSameDate
    /\ called[1] # called[2]
    /\ result.err = "nil"
    /\ again.period.Start # ZeroTime

----------------------------------------------------------------------------
(* C14: createNewClient for a name that is not in the table answers        *)
(* Created with a new id, and a following retrieveClient for that id       *)
(* returns a client whose name, workingHours, priority, leadCapacity and   *)
(* existingLeads are the submitted ones.                                   *)

Created(p) == cpc[p] = "done" /\ cresp[p].code = StatusCreated

\* The SELECT of request p runs in this step and meets no row of its name.
LooksUpNewName(p) ==
    /\ cpc[p] = "idle"
    /\ IdsNamed(db, payload[p].Name) = {}
    /\ cpc'[p] \in {"insert", "done"}
    /\ cresp'[p].code \notin {StatusMethodNotAllowed, StatusBadRequest}
    /\ cresp'[p] # [code |-> StatusOK, id |-> 0]

\* The INSERT of request p runs in this step.
InsertsNow(p) == cpc[p] = "insert" /\ cpc'[p] = "done"

\* A retrieveClient for the id request p was answered with is served in
\* this step, row.Scan not failing.
RetrievesCreated(p) ==
    /\ Created(p)
    /\ rpc = "idle" /\ rpc' = "done"
    /\ asked' = Sprint(cresp[p].id)
    /\ rresp'.code # StatusInternalServerError

SameClient(c, body) ==
    /\ c.Name = body.Name
    /\ c.WorkingHours = body.WorkingHours
    /\ c.Priority = body.Priority
    /\ c.LeadCapacity = body.LeadCapacity
    /\ c.ExistingLeads = body.ExistingLeads

C14_CreatedThenRetrieved ==
    [][\A p \in Requests :
          /\ LooksUpNewName(p) => cpc'[p] = "insert"
          /\ InsertsNow(p) =>
                /\ cresp'[p].code = StatusCreated
                /\ cresp'[p].id \notin Ids(db)
                /\ cresp'[p].id \in Ids(db')
                /\ \A q \in Requests \ {p} : cresp'[p].id # cresp[q].id
          /\ RetrievesCreated(p) =>
                /\ rresp'.code = StatusOK
                /\ rresp'.client.ID = cresp[p].id
                /\ SameClient(rresp'.client, payload[p])]_vars

\* A client created next to the clients of the tests, by a body that
\* carried an id of its own, has been retrieved by the id of the answer.
C14_Witness ==
    \E p \in Requests :
        /\ Created(p)
        /\ db0 = clientsTest
        /\ rpc = "done"
        /\ asked = Sprint(cresp[p].id)
        /\ rresp.code = StatusOK
        /\ payload[p].ID # cresp[p].id
        /\ payload[p].ID # 0
        /\ SameClient(rresp.client, payload[p])

----------------------------------------------------------------------------
(* C15: the window test is start <= now < end: a client under capacity is  *)
(* eligible when now is exactly its start and is not eligible when now is  *)
(* exactly its end.                                                        *)

\* The scan of request p ended at position i of its slice by taking that
\* client: the UPDATE was issued for it.
SelectedAt(p, i) ==
    /\ Done(p)
    /\ i = Len(parsed[p])
    /\ \/ AssignedTo(p, clients[p][i].ID)
       \/ resp[p].error = "Failed to update client's lead counter"

C15_HalfOpenWindow ==
    \A i \in 1..Len(parsed[1]) :
        LET w == parsed[1][i]
        IN  ( /\ w.err = "nil"
              /\ w.period.Start < w.period.End
              /\ HasCapacity(clients[1][i]) )
            => /\ currentTime[1] = w.period.Start => SelectedAt(1, i)
               /\ currentTime[1] = w.period.End => ~SelectedAt(1, i)

----------------------------------------------------------------------------
(* C16: a workingHours whose end is earlier on the clock than its start    *)
(* parses without error, and assignLead never selects that client at any   *)
(* current time: the scan passes over it without error.                    *)

\* s is "HH:MM-HH:MM" with the end earlier on the clock than the start.
EndsBeforeStart(s) ==
    /\ IsHHMMPeriod(s)
    /\ MinuteOfDay(EndText(s)) < MinuteOfDay(StartText(s))

\* The scan of request p went past position i of its slice: it is at the
\* next position, or fell out of the loop after the last one.
PassedOver(p, i) ==
    IF Done(p) /\ i = Len(parsed[p])
    THEN NoEligibleClient(p) /\ i = Len(clients[p])
    ELSE i < Len(parsed[p]) \/ idx[p] = i + 1

C16_OvernightNeverSelected ==
    \A i \in 1..Len(parsed[1]) :
        EndsBeforeStart(Chars(clients[1][i].WorkingHours)) =>
            /\ parsed[1][i].err = "nil"
            /\ ~TreatedInside(1, i)
            /\ ~AssignedTo(1, clients[1][i].ID)
            /\ PassedOver(1, i)

\* A client with room whose window "16:30-00:30" would hold the wall clock
\* of the request if it ran on to the next day has been passed over, and
\* the request ended with no client or with a later one.
C16_Witness ==
    \E i \in 1..Len(parsed[1]) :
        /\ clients[1][i].WorkingHours = "16:30-00:30"
        /\ HasCapacity(clients[1][i])
        /\ WallClock(1) >= 16 * 60 + 30
        /\ Local = UTC
        /\ Done(1)
        /\ NoEligibleClient(1) \/ Assigned(1)

----------------------------------------------------------------------------
(* C17: selection is deterministic: requests on the same table at the same *)
(* time return the same client, and of clients that are eligible with the  *)
(* same priority and the same existingLeads the one with the lowest id is  *)
(* returned.                                                               *)

\* Rows a and b of the table tie in the order of the query.
Tie(t, a, b) ==
    /\ t[a].Priority = t[b].Priority
    /\ t[a].ExistingLeads = t[b].ExistingLeads

C17_TiesByLowestId ==
    \A a, b \in Ids(db0) :
        ( /\ a < b
          /\ AssignedTo(1, b)
          /\ Tie(db0, a, b) )
        => ~( /\ EligibleAtRead(1, ScanRow(db0, a))
              /\ EligibleAtRead(1, ScanRow(db0, b)) )

----------------------------------------------------------------------------
(* C18: createNewClient answers with the id of the existing client and     *)
(* inserts nothing when the name is in the table, and inserts one row      *)
(* otherwise; so after any interleaving of concurrent requests the table   *)
(* holds at most one client per name and all requests for one name have    *)
(* been answered with the same id.                                         *)

\* Request p has been answered with the id of a client (200 or 201), its
\* SELECT not having failed.
AnsweredWithId(p) ==
    /\ cpc[p] = "done"
    /\ cresp[p].code \in {StatusOK, StatusCreated}
    /\ cresp[p].id # 0

OneClientPerName(t) ==
    \A i, j \in Ids(t) : t[i].Name = t[j].Name => i = j

C18_OneClientPerName ==
    /\ OneClientPerName(db)
    /\ Len(db) <= Len(db0) + Cardinality({payload[p].Name : p \in Requests})
    /\ \A p, q \in Requests :
          ( /\ AnsweredWithId(p)
            /\ AnsweredWithId(q)
            /\ payload[p].Name = payload[q].Name )
          => cresp[p].id = cresp[q].id

----------------------------------------------------------------------------
(* C19: in every step of every assignLead request each client's            *)
(* existingLeads stays as it is or goes up by exactly 1, and is never      *)
(* below 0; a request that ends with no-eligible-client, with the          *)
(* configuration error or with a storage error has raised none.            *)

\* Request p has ended with one of the three outcomes that are no success.
EndedWithout(p) ==
    NoEligibleClient(p) \/ ConfigurationError(p) \/ StorageError(p)

C19_LeadsOnlyGrowByOne ==
    [][/\ Ids(db') = Ids(db)
       /\ \A id \in Ids(db) :
             /\ db'[id].ExistingLeads \in
                    {db[id].ExistingLeads, db[id].ExistingLeads + 1}
             /\ db'[id].ExistingLeads >= 0
             /\ db'[id].ExistingLeads # db[id].ExistingLeads =>
                   \E p \in Requests : updated'[p] = Append(updated[p], id)
       /\ \A p \in Requests : EndedWithout(p)' => updated'[p] = <<>>]_vars

\* One request has raised a client by 1 and another has ended without a
\* success, having raised none.
C19_Witness ==
    \E p, q \in Requests :
        /\ Assigned(p)
        /\ EndedWithout(q)
        /\ updated[q] = <<>>
        /\ db[resp[p].client_id].ExistingLeads
               = db0[resp[p].client_id].ExistingLeads + 1

----------------------------------------------------------------------------
(* C20: every assignLead request ends, with exactly one of the outcomes    *)
(* success, no-eligible-client, configuration error and storage error,     *)
(* having scanned each client of its slice at most once; and no request    *)
(* waits for another.                                                      *)

Outcomes(p) ==
    {o \in {"success", "no eligible client", "configuration error",
            "storage error"} :
        \/ o = "success" /\ Assigned(p)
        \/ o = "no eligible client" /\ NoEligibleClient(p)
        \/ o = "configuration error" /\ ConfigurationError(p)
        \/ o = "storage error" /\ StorageError(p)}

\* The passes of the loop made so far were at positions 1, 2, ... of the
\* slice, one pass each, and the slice holds no client twice.
ScannedOnce(p) ==
    /\ Len(parsed[p]) <= Len(clients[p])
    /\ pc[p] = "scan" => idx[p] = Len(parsed[p]) + 1
    /\ \A i, j \in 1..Len(clients[p]) :
          clients[p][i].ID = clients[p][j].ID => i = j

\* The requests are finitely many: a state in which all of them have ended
\* is reached exactly when each of them ends.
C20_EveryRequestEnds ==
    /\ <>(\A p \in Requests : Done(p))
    /\ [](\A p \in Requests :
             /\ ScannedOnce(p)
             /\ Done(p) => Cardinality(Outcomes(p)) = 1
             /\ ~Done(p) => ENABLED assignLead(p))

\* Both requests have ended, one having scanned its whole slice and the
\* other having stopped at the first client.
C20_Witness ==
    \E p, q \in Requests :
        /\ Done(p) /\ Done(q)
        /\ Len(clients[p]) = 2 /\ Len(parsed[p]) = 2
        /\ NoEligibleClient(p)
        /\ Len(clients[q]) = 2 /\ Len(parsed[q]) = 1
        /\ Assigned(q)

====
